---- MODULE Spec2Model ----
(***************************************************************************)
(* ALBERT encoder (src/albert/encoder.rs): AlbertLayer, AlbertLayerGroup    *)
(* and AlbertTransformer.  Construction and one forward pass of the         *)
(* transformer are modelled step by step: the depth loop of                 *)
(* AlbertTransformer::forward_t and, inside each depth step, the block      *)
(* loop of AlbertLayerGroup::forward_t.                                     *)
(*                                                                         *)
(* Tensors are symbolic: a tensor is the sequence of operations that        *)
(* produced it, each operation a tuple <<name, group, block, mask>>.  Two   *)
(* tensors are equal only when they were computed the same way, so no       *)
(* equality holds by accident of the numeric values.                        *)
(***************************************************************************)
EXTENDS Integers, Sequences, FiniteSets, TLC

\* Bounds of the explored configurations.
MaxLayers == 4
MaxGroups == 4
MaxInner == 2

VARIABLES config, mask, attention_none, self, pc, fault, i, group_idx,
          hidden_state, all_hidden_states, all_attentions, temp, ret, calls,
          k, g_hidden_state, g_all_hidden_states, g_all_attentions

vars == <<config, mask, attention_none, self, pc, fault, i, group_idx,
          hidden_state, all_hidden_states, all_attentions, temp, ret, calls,
          k, g_hidden_state, g_all_hidden_states, g_all_attentions>>

stack_vars == <<i, group_idx, hidden_state, all_hidden_states, all_attentions, temp, ret, calls>>

group_vars == <<k, g_hidden_state, g_all_hidden_states, g_all_attentions>>

env_vars == <<config, mask, attention_none>>

\* Option<T>: None is the empty sequence, Some(x) the one-element sequence.
None == <<>>

Some(x) == <<x>>

IsSome(o) == Len(o) = 1

Unwrap(o) == o[1]

\* The tensor handed to AlbertTransformer::forward_t (embedding space).
Input == << <<"hidden_states", 0, 0, "-">> >>

\* hidden_states.apply(&self.embedding_hidden_mapping_in)
embedding_hidden_mapping_in(t) == Append(t, <<"embedding_hidden_mapping_in", 0, 0, "-">>)

\* AlbertLayer::new: a block owns its own parameters, named by its path
\* albert_layer_groups/<group>/albert_layers/<index>.
AlbertLayer_new(g, index) == [group |-> g, index |-> index]

\* AlbertSelfAttention::forward_t returns Option<Tensor> weights; whether a
\* block's attention component returns None is a property of the component.
attention_weights_of(layer, hidden_states, m) ==
    IF layer.index \in attention_none
    THEN None
    ELSE Some(Append(hidden_states, <<"attention_weights", layer.group, layer.index, m>>))

\* AlbertLayer::forward_t: (ffn_output, attention_weights)
AlbertLayer_forward_t(layer, hidden_states, m) ==
    << Append(hidden_states, <<"AlbertLayer", layer.group, layer.index, m>>),
       attention_weights_of(layer, hidden_states, m) >>

\* AlbertLayerGroup::new
AlbertLayerGroup_new(g, cfg) ==
    [output_hidden_states |-> cfg.output_hidden_states,
     output_attentions    |-> cfg.output_attentions,
     layers |-> [index \in 1..cfg.inner_group_num |-> AlbertLayer_new(g, index - 1)]]

\* AlbertTransformer::new: the loop that pushes the layer groups
TransformerGroupCount(cfg) == cfg.inner_group_num

AlbertTransformer_new(cfg) ==
    [output_hidden_states |-> cfg.output_hidden_states,
     output_attentions    |-> cfg.output_attentions,
     num_hidden_layers    |-> cfg.num_hidden_layers,
     num_hidden_groups    |-> cfg.num_hidden_groups,
     layers |-> [g \in 1..TransformerGroupCount(cfg) |-> AlbertLayerGroup_new(g - 1, cfg)]]

\* if flag { Some(vec!()) } else { None }
InitHistory_always(flag) == Some(<<>>)

InitHistory(flag) == IF flag THEN Some(<<>>) ELSE None

\* if let Some(v) = history.borrow_mut() { v.push(x) }
PushIfSome(history, x) == IF IsSome(history) THEN Some(Append(Unwrap(history), x)) ELSE None

\* i64 division faults when the divisor is zero; both divisions of
\* i / (num_hidden_layers / num_hidden_groups) can.
DivisionFaults(layers_n, groups_n) ==
    IF groups_n = 0 THEN TRUE ELSE layers_n \div groups_n = 0

\* let group_idx = i / (self.num_hidden_layers / self.num_hidden_groups)
\* (operands are non-negative here, so truncating division is \div)
GroupIdx_depth(step, layers_n, groups_n) == step

GroupIdx_plus_one(step, layers_n, groups_n) == step \div (layers_n \div groups_n) + 1

GroupIdx_by_groups(step, layers_n, groups_n) == step \div groups_n

GroupIdx(step, layers_n, groups_n) == step \div (layers_n \div groups_n)

Configs ==
    [num_hidden_layers : 0..MaxLayers,
     num_hidden_groups : 0..MaxGroups,
     inner_group_num : 0..MaxInner,
     output_hidden_states : BOOLEAN,
     output_attentions : BOOLEAN]

Init ==
    /\ config \in Configs
    /\ mask \in {"None", "Some"}
    /\ attention_none \in SUBSET (0..(MaxInner - 1))
    /\ self = None
    /\ pc = "new"
    /\ fault = "none"
    /\ i = 0
    /\ group_idx = 0
    /\ hidden_state = Input
    /\ all_hidden_states = None
    /\ all_attentions = None
    /\ temp = None
    /\ ret = None
    /\ calls = 0
    /\ k = 0
    /\ g_hidden_state = Input
    /\ g_all_hidden_states = None
    /\ g_all_attentions = None

\* AlbertTransformer::new
New ==
    /\ pc = "new"
    /\ self' = Some(AlbertTransformer_new(config))
    /\ pc' = "ready"
    /\ UNCHANGED <<env_vars, fault, stack_vars, group_vars>>

\* AlbertTransformer::forward_t, up to the loop
ForwardEnter ==
    /\ pc = "ready"
    /\ hidden_state' = embedding_hidden_mapping_in(Input)
    /\ all_hidden_states' = InitHistory(Unwrap(self).output_hidden_states)
    /\ all_attentions' = InitHistory(Unwrap(self).output_attentions)
    /\ i' = 0
    /\ pc' = "loop"
    /\ UNCHANGED <<env_vars, self, fault, group_idx, temp, ret, calls, group_vars>>

\* the loop is exhausted: (hidden_state, all_hidden_states, all_attentions)
ForwardReturn ==
    /\ pc = "loop"
    /\ i >= Unwrap(self).num_hidden_layers
    /\ ret' = Some(<<hidden_state, all_hidden_states, all_attentions>>)
    /\ pc' = "done"
    /\ UNCHANGED <<env_vars, self, fault, i, group_idx, hidden_state,
                   all_hidden_states, all_attentions, temp, calls, group_vars>>

\* a depth step whose group-index computation divides by zero
DivideByZero_recovered ==
    /\ pc = "loop"
    /\ i < Unwrap(self).num_hidden_layers
    /\ DivisionFaults(Unwrap(self).num_hidden_layers, Unwrap(self).num_hidden_groups)
    /\ ret' = Some(<<hidden_state, all_hidden_states, all_attentions>>)
    /\ pc' = "done"
    /\ UNCHANGED <<env_vars, self, fault, i, group_idx, hidden_state,
                   all_hidden_states, all_attentions, temp, calls, group_vars>>

DivideByZero ==
    /\ pc = "loop"
    /\ i < Unwrap(self).num_hidden_layers
    /\ DivisionFaults(Unwrap(self).num_hidden_layers, Unwrap(self).num_hidden_groups)
    /\ pc' = "panic"
    /\ fault' = "divide_by_zero"
    /\ UNCHANGED <<env_vars, self, stack_vars, group_vars>>

\* a depth step whose &self.layers[group_idx as usize] is out of bounds
IndexOutOfBounds ==
    /\ pc = "loop"
    /\ i < Unwrap(self).num_hidden_layers
    /\ ~DivisionFaults(Unwrap(self).num_hidden_layers, Unwrap(self).num_hidden_groups)
    /\ LET idx == GroupIdx(i, Unwrap(self).num_hidden_layers, Unwrap(self).num_hidden_groups)
       IN /\ idx >= Len(Unwrap(self).layers)
          /\ group_idx' = idx
    /\ pc' = "panic"
    /\ fault' = "index_out_of_bounds"
    /\ UNCHANGED <<env_vars, self, i, hidden_state, all_hidden_states,
                   all_attentions, temp, ret, calls, group_vars>>

\* a depth step up to the call layer.forward_t(&hidden_state, &mask, train),
\* and AlbertLayerGroup::forward_t up to its loop
GroupEnter ==
    /\ pc = "loop"
    /\ i < Unwrap(self).num_hidden_layers
    /\ ~DivisionFaults(Unwrap(self).num_hidden_layers, Unwrap(self).num_hidden_groups)
    /\ LET idx == GroupIdx(i, Unwrap(self).num_hidden_layers, Unwrap(self).num_hidden_groups)
       IN /\ idx < Len(Unwrap(self).layers)
          /\ group_idx' = idx
          /\ g_all_hidden_states' = InitHistory(Unwrap(self).layers[idx + 1].output_hidden_states)
          /\ g_all_attentions' = InitHistory(Unwrap(self).layers[idx + 1].output_attentions)
    /\ all_hidden_states' = PushIfSome(all_hidden_states, hidden_state)
    /\ g_hidden_state' = hidden_state
    /\ k' = 0
    /\ calls' = calls + 1
    /\ pc' = "group"
    /\ UNCHANGED <<env_vars, self, fault, i, hidden_state, all_attentions, temp, ret>>

\* the layer the group's iterator yields next
NextLayer == Unwrap(self).layers[group_idx + 1].layers[k + 1]

\* one iteration of the group's loop, Some(layer) arm
LayerStep_post ==
    /\ pc = "group"
    /\ k < Len(Unwrap(self).layers[group_idx + 1].layers)
    /\ LET t == AlbertLayer_forward_t(NextLayer, g_hidden_state, mask)
       IN /\ ~(IsSome(g_all_attentions) /\ ~IsSome(t[2]))
          /\ g_all_hidden_states' = PushIfSome(g_all_hidden_states, t[1])
          /\ g_hidden_state' = t[1]
          /\ g_all_attentions' = IF IsSome(g_all_attentions)
                                 THEN PushIfSome(g_all_attentions, Unwrap(t[2]))
                                 ELSE None
    /\ k' = k + 1
    /\ UNCHANGED <<env_vars, self, pc, fault, stack_vars>>

LayerStep ==
    /\ pc = "group"
    /\ k < Len(Unwrap(self).layers[group_idx + 1].layers)
    /\ LET t == AlbertLayer_forward_t(NextLayer, g_hidden_state, mask)
       IN /\ ~(IsSome(g_all_attentions) /\ ~IsSome(t[2]))
          /\ g_all_hidden_states' = PushIfSome(g_all_hidden_states, g_hidden_state)
          /\ g_hidden_state' = t[1]
          /\ g_all_attentions' = IF IsSome(g_all_attentions)
                                 THEN PushIfSome(g_all_attentions, Unwrap(t[2]))
                                 ELSE None
    /\ k' = k + 1
    /\ UNCHANGED <<env_vars, self, pc, fault, stack_vars>>

\* the same iteration when attention_weights.as_ref().unwrap() meets None
LayerUnwrapNone_skip ==
    /\ pc = "group"
    /\ k < Len(Unwrap(self).layers[group_idx + 1].layers)
    /\ LET t == AlbertLayer_forward_t(NextLayer, g_hidden_state, mask)
       IN /\ IsSome(g_all_attentions) /\ ~IsSome(t[2])
          /\ g_all_hidden_states' = PushIfSome(g_all_hidden_states, g_hidden_state)
          /\ g_hidden_state' = t[1]
    /\ k' = k + 1
    /\ UNCHANGED <<env_vars, self, pc, fault, stack_vars, g_all_attentions>>

LayerUnwrapNone ==
    /\ pc = "group"
    /\ k < Len(Unwrap(self).layers[group_idx + 1].layers)
    /\ LET t == AlbertLayer_forward_t(NextLayer, g_hidden_state, mask)
       IN /\ IsSome(g_all_attentions) /\ ~IsSome(t[2])
          /\ g_all_hidden_states' = PushIfSome(g_all_hidden_states, g_hidden_state)
          /\ g_hidden_state' = t[1]
    /\ pc' = "panic"
    /\ fault' = "unwrap_none_layer_group"
    /\ UNCHANGED <<env_vars, self, stack_vars, k, g_all_attentions>>

\* what AlbertLayerGroup::forward_t returns once its iterator is exhausted
GroupResult == <<g_hidden_state, g_all_hidden_states, g_all_attentions>>

\* let attention_weights = temp.1  (tuple fields count from 0)
StackAttentionWeights(t) == t[2]

\* the group returns and the depth step completes
GroupReturn ==
    /\ pc = "group"
    /\ k >= Len(Unwrap(self).layers[group_idx + 1].layers)
    /\ ~(IsSome(all_attentions) /\ ~IsSome(StackAttentionWeights(GroupResult)))
    /\ temp' = Some(GroupResult)
    /\ hidden_state' = GroupResult[1]
    /\ all_attentions' = IF IsSome(all_attentions)
                         THEN PushIfSome(all_attentions, Unwrap(StackAttentionWeights(GroupResult)))
                         ELSE None
    /\ i' = i + 1
    /\ pc' = "loop"
    /\ UNCHANGED <<env_vars, self, fault, group_idx, all_hidden_states, ret, calls, group_vars>>

\* the group returns and attention_weights.unwrap() meets None
StackUnwrapNone ==
    /\ pc = "group"
    /\ k >= Len(Unwrap(self).layers[group_idx + 1].layers)
    /\ IsSome(all_attentions) /\ ~IsSome(StackAttentionWeights(GroupResult))
    /\ temp' = Some(GroupResult)
    /\ hidden_state' = GroupResult[1]
    /\ pc' = "panic"
    /\ fault' = "unwrap_none_transformer"
    /\ UNCHANGED <<env_vars, self, i, group_idx, all_hidden_states, all_attentions,
                   ret, calls, group_vars>>

Next ==
    \/ New
    \/ ForwardEnter
    \/ ForwardReturn
    \/ DivideByZero
    \/ IndexOutOfBounds
    \/ GroupEnter
    \/ LayerStep
    \/ LayerUnwrapNone
    \/ GroupReturn
    \/ StackUnwrapNone

Spec == Init /\ [][Next]_vars

(***************************************************************************)
(* Reference computations used by the properties.                          *)
(***************************************************************************)

\* the blocks of a group applied in sequence, by hand
RECURSIVE ApplyLayers(_, _, _)
ApplyLayers(ls, hs, m) ==
    IF ls = <<>> THEN hs
    ELSE ApplyLayers(Tail(ls), AlbertLayer_forward_t(Head(ls), hs, m)[1], m)

\* the hidden state AlbertLayerGroup::forward_t returns
GroupOutput(group, hs, m) == ApplyLayers(group.layers, hs, m)

\* the input projection once, then layer group 0 invoked n times in sequence
RECURSIVE Manual(_)
Manual(n) ==
    IF n = 0 THEN embedding_hidden_mapping_in(Input)
    ELSE GroupOutput(Unwrap(self).layers[1], Manual(n - 1), mask)

\* a depth step has computed its group index (it is in the group, or it
\* faulted after the computation)
AtDepthStep == pc = "group" \/ (pc = "panic" /\ fault # "divide_by_zero")

\* every block of a group gets attention weights from its attention component
WellFormedAttention == attention_none \cap (0..(config.inner_group_num - 1)) = {}

CurrentGroup == Unwrap(self).layers[group_idx + 1]

(***************************************************************************)
(* Properties                                                              *)
(***************************************************************************)

\* C1: with output_attentions on and output_hidden_states off, and
\* num_hidden_layers >= 1, inner_group_num >= 1, num_hidden_groups dividing
\* num_hidden_layers, the forward call completes (never faults) and returns an
\* attentions history of num_hidden_layers entries, each of inner_group_num
\* tensors.
C1_AttentionsHistoryShape ==
    ( /\ config.output_attentions
      /\ ~config.output_hidden_states
      /\ config.num_hidden_layers >= 1
      /\ config.inner_group_num >= 1
      /\ config.num_hidden_groups >= 1
      /\ config.num_hidden_layers % config.num_hidden_groups = 0
      /\ WellFormedAttention )
    => /\ pc # "panic"
       /\ pc = "done" =>
            /\ IsSome(Unwrap(ret)[3])
            /\ Len(Unwrap(Unwrap(ret)[3])) = config.num_hidden_layers
            /\ \A n \in 1..Len(Unwrap(Unwrap(ret)[3])) :
                   Len(Unwrap(Unwrap(ret)[3])[n]) = config.inner_group_num

\* C2: a returned forward call with both flags off has both histories None;
\* with only output_hidden_states on, the hidden-state history has exactly
\* num_hidden_layers entries and the attentions history is None.
C2_HistoriesAbsentOrDepthLong ==
    pc = "done" =>
        /\ (~config.output_hidden_states /\ ~config.output_attentions)
              => (Unwrap(ret)[2] = None /\ Unwrap(ret)[3] = None)
        /\ (config.output_hidden_states /\ ~config.output_attentions)
              => /\ IsSome(Unwrap(ret)[2])
                 /\ Len(Unwrap(Unwrap(ret)[2])) = config.num_hidden_layers
                 /\ Unwrap(ret)[3] = None

C2_Witness ==
    /\ pc = "done"
    /\ config.output_hidden_states /\ ~config.output_attentions
    /\ config.num_hidden_layers = 4 /\ config.num_hidden_groups = 2
    /\ calls = 4

\* C3: after construction the transformer holds exactly num_hidden_groups
\* layer groups, and each group holds exactly inner_group_num blocks.
C3_GroupAndBlockCounts ==
    pc # "new" =>
        /\ Len(Unwrap(self).layers) = config.num_hidden_groups
        /\ \A g \in 1..Len(Unwrap(self).layers) :
               Len(Unwrap(self).layers[g].layers) = config.inner_group_num

\* C4: when attentions are collected, the entry appended to the top-level
\* attentions history at a depth step is the attentions sequence the invoked
\* group returned, and never the group's hidden-state history.
C4_AttentionsEntryIsGroupAttentions ==
    (pc = "loop" /\ IsSome(temp) /\ IsSome(all_attentions)) =>
        LET entry == Unwrap(all_attentions)[Len(Unwrap(all_attentions))]
            returned == Unwrap(temp)
        IN /\ IsSome(returned[3])
           /\ entry = Unwrap(returned[3])
           /\ IsSome(returned[2]) => entry # Unwrap(returned[2])

\* C5 (as claimed): for 1 <= num_hidden_groups <= num_hidden_layers the group
\* index computed at every depth step is at most num_hidden_groups - 1.
C5_GroupIdxWithinGroups ==
    ( /\ AtDepthStep
      /\ 1 <= config.num_hidden_groups
      /\ config.num_hidden_groups <= config.num_hidden_layers )
    => group_idx <= config.num_hidden_groups - 1

\* C5 (amended): for 1 <= num_hidden_groups <= num_hidden_layers, when
\* num_hidden_groups evenly divides num_hidden_layers the group index of every
\* depth step is at most num_hidden_groups - 1; when it does not, the index
\* computed at the last depth step is at least num_hidden_groups.
C5_GroupIdxWithinGroupsIffDivides ==
    ( /\ AtDepthStep
      /\ 1 <= config.num_hidden_groups
      /\ config.num_hidden_groups <= config.num_hidden_layers )
    => /\ config.num_hidden_layers % config.num_hidden_groups = 0
            => group_idx <= config.num_hidden_groups - 1
       /\ ( /\ config.num_hidden_layers % config.num_hidden_groups # 0
            /\ i = config.num_hidden_layers - 1 )
            => group_idx >= config.num_hidden_groups

C5_Witness ==
    /\ pc = "group"
    /\ config.num_hidden_layers = 4 /\ config.num_hidden_groups = 2
    /\ i = 3 /\ group_idx = 1

\* C6: with num_hidden_groups = num_hidden_layers the group index of depth
\* step i is i; with num_hidden_groups = 1 it is 0 at every depth step.
C6_GroupIdxNoSharingAndFullSharing ==
    AtDepthStep =>
        /\ config.num_hidden_groups = config.num_hidden_layers => group_idx = i
        /\ config.num_hidden_groups = 1 => group_idx = 0

C6_Witness ==
    /\ pc = "group"
    /\ config.num_hidden_groups = 2 /\ config.num_hidden_layers = 2
    /\ i = 1 /\ group_idx = 1

\* C7: with num_hidden_groups = 1 the returned final hidden state is the input
\* projected once and then passed through that one group's forward
\* num_hidden_layers times, each time with the previous output and the same
\* mask.
C7_SingleGroupEqualsManualIteration ==
    (pc = "done" /\ config.num_hidden_groups = 1) =>
        Unwrap(ret)[1] = Manual(config.num_hidden_layers)

C7_Witness ==
    /\ pc = "done"
    /\ config.num_hidden_groups = 1
    /\ config.num_hidden_layers = 3
    /\ config.inner_group_num = 2
    /\ calls = 3

\* C8: with num_hidden_groups = 0 and num_hidden_layers >= 1 the forward call
\* faults with a division by zero in the first depth step, before any layer
\* group is invoked, and returns nothing; the fault is not recovered.
C8_ZeroGroupsDivideByZero ==
    /\ [](( config.num_hidden_groups = 0 /\ config.num_hidden_layers >= 1 ) =>
            /\ calls = 0
            /\ ret = None
            /\ pc \notin {"group", "done"}
            /\ pc = "panic" => (fault = "divide_by_zero" /\ i = 0 /\ temp = None))
    /\ [][( /\ config.num_hidden_groups = 0
            /\ config.num_hidden_layers >= 1
            /\ pc = "loop" )
          => (pc' = "panic" /\ fault' = "divide_by_zero")]_vars

C8_Witness ==
    /\ pc = "panic" /\ fault = "divide_by_zero"
    /\ config.num_hidden_groups = 0 /\ config.num_hidden_layers >= 1
    /\ i = 0 /\ calls = 0

\* C9: collected hidden states are snapshots taken before application: in the
\* group, entry n is the input of block n; in the transformer, entry n is the
\* input of the group of depth step n, entry 0 is the projected input, and the
\* returned final hidden state is not in the history.
C9_HistoriesArePreApplicationSnapshots ==
    /\ (pc = "group" /\ IsSome(g_all_hidden_states)) =>
          LET h == Unwrap(g_all_hidden_states)
              ls == CurrentGroup.layers
          IN /\ Len(h) = k
             /\ \A n \in 1..Len(h) :
                    h[n] = IF n = 1 THEN hidden_state
                           ELSE AlbertLayer_forward_t(ls[n - 1], h[n - 1], mask)[1]
             /\ k >= 1 => g_hidden_state = AlbertLayer_forward_t(ls[k], h[k], mask)[1]
    /\ (pc = "group" /\ IsSome(all_hidden_states)) =>
          /\ Len(Unwrap(all_hidden_states)) = i + 1
          /\ Unwrap(all_hidden_states)[i + 1] = hidden_state
    /\ (pc \in {"loop", "done"} /\ IsSome(all_hidden_states)) =>
          LET h == Unwrap(all_hidden_states)
              groupAt(n) == Unwrap(self).layers[
                                GroupIdx(n, config.num_hidden_layers, config.num_hidden_groups) + 1]
          IN /\ Len(h) = i
             /\ i >= 1 => h[1] = embedding_hidden_mapping_in(Input)
             /\ \A n \in 2..Len(h) : h[n] = GroupOutput(groupAt(n - 2), h[n - 1], mask)
             /\ i >= 1 => hidden_state = GroupOutput(groupAt(i - 1), h[i], mask)
             /\ \A n \in 1..Len(h) : h[n] # hidden_state
             /\ pc = "done" => /\ Unwrap(ret)[2] = all_hidden_states
                               /\ Unwrap(ret)[1] = hidden_state

C9_Witness ==
    /\ pc = "done"
    /\ IsSome(all_hidden_states)
    /\ Len(Unwrap(all_hidden_states)) = 3
    /\ IsSome(g_all_hidden_states)
    /\ Len(Unwrap(g_all_hidden_states)) = 2

\* C10: in the group forward, with attentions collected, a block whose
\* attention returns no weights faults the call at that block, so a returned
\* attentions history has one entry per block in block order; with attentions
\* not collected there is no such fault and the attentions history is None.
C10_MissingAttentionWeightsFault ==
    /\ (pc = "group" /\ Unwrap(self).layers[group_idx + 1].output_attentions) =>
          /\ IsSome(g_all_attentions)
          /\ Len(Unwrap(g_all_attentions)) = k
          /\ \A n \in 1..k :
                /\ (n - 1) \notin attention_none
                /\ Some(Unwrap(g_all_attentions)[n]) =
                       attention_weights_of(CurrentGroup.layers[n],
                           ApplyLayers(SubSeq(CurrentGroup.layers, 1, n - 1), hidden_state, mask),
                           mask)
    /\ (pc \in {"loop", "done"} /\ IsSome(temp) /\ config.output_attentions) =>
          /\ IsSome(Unwrap(temp)[3])
          /\ Len(Unwrap(Unwrap(temp)[3])) = Len(CurrentGroup.layers)
          /\ \A n \in 1..Len(Unwrap(Unwrap(temp)[3])) :
                LET w == Unwrap(Unwrap(temp)[3])[n]
                IN w[Len(w)] = <<"attention_weights", group_idx, n - 1, mask>>
    /\ fault = "unwrap_none_layer_group" =>
          /\ config.output_attentions
          /\ k \in attention_none
          /\ Len(Unwrap(g_all_attentions)) = k
          /\ ret = None
    /\ (pc # "new" /\ ~config.output_attentions) =>
          /\ fault # "unwrap_none_layer_group"
          /\ g_all_attentions = None
          /\ IsSome(temp) => Unwrap(temp)[3] = None

C10_Witness ==
    /\ pc = "panic" /\ fault = "unwrap_none_layer_group"
    /\ k = 1
    /\ Len(Unwrap(g_all_attentions)) = 1

====
